---- MODULE Spec2Model ----
(***************************************************************************)
(* Model of scripts/colorgen.py: the Material You colour pipeline.         *)
(*                                                                         *)
(* Python floats are IEEE-754 binary64.  They are modelled exactly: a      *)
(* float is a sign, a natural-number significand (held as a sequence of    *)
(* base-2^15 limbs, least significant first, because the model checker's   *)
(* integers are 32 bits wide) and a binary exponent.  Every arithmetic     *)
(* operation computes the exact result and rounds it to 53 significant     *)
(* bits, ties to even, as the hardware does.                               *)
(***************************************************************************)
EXTENDS Integers, Sequences, FiniteSets, TLC

\* ------------------------------------------------------------------------
\* Natural numbers of arbitrary size (limbs of 15 bits, little endian).
\* ------------------------------------------------------------------------
Base == 2^15

Min2(a, b) == IF a <= b THEN a ELSE b

Max2(a, b) == IF a >= b THEN a ELSE b

Abs(i) == IF i < 0 THEN -i ELSE i

RECURSIVE Pow2(_)
Pow2(k) == IF k = 0 THEN 1 ELSE 2 * Pow2(k - 1)

RECURSIVE BNorm(_)
BNorm(n) == IF n = <<>> THEN <<>>
            ELSE IF n[Len(n)] = 0 THEN BNorm(SubSeq(n, 1, Len(n) - 1))
            ELSE n

RECURSIVE BFromInt(_)
BFromInt(i) == IF i = 0 THEN <<>> ELSE <<i % Base>> \o BFromInt(i \div Base)

RECURSIVE BToInt(_)
BToInt(n) == IF n = <<>> THEN 0 ELSE Head(n) + Base * BToInt(Tail(n))

RECURSIVE BAddC(_, _, _)
BAddC(a, b, c) ==
    IF a = <<>> /\ b = <<>> THEN (IF c = 0 THEN <<>> ELSE <<c>>)
    ELSE LET x == IF a = <<>> THEN 0 ELSE Head(a)
             y == IF b = <<>> THEN 0 ELSE Head(b)
             s == x + y + c
         IN  <<s % Base>> \o BAddC(IF a = <<>> THEN a ELSE Tail(a),
                                   IF b = <<>> THEN b ELSE Tail(b),
                                   s \div Base)

BAdd(a, b) == BAddC(a, b, 0)

\* a - b for a >= b
RECURSIVE BSubC(_, _, _)
BSubC(a, b, c) ==
    IF a = <<>> THEN <<>>
    ELSE LET y == IF b = <<>> THEN 0 ELSE Head(b)
             d == Head(a) - y - c
         IN  <<d % Base>> \o BSubC(Tail(a),
                                   IF b = <<>> THEN b ELSE Tail(b),
                                   IF d < 0 THEN 1 ELSE 0)

BSub(a, b) == BNorm(BSubC(a, b, 0))

\* -1, 0, 1 as a < b, a = b, a > b (both normalised)
RECURSIVE BCmpAt(_, _, _)
BCmpAt(a, b, i) ==
    IF i = 0 THEN 0
    ELSE IF a[i] < b[i] THEN -1
    ELSE IF a[i] > b[i] THEN 1
    ELSE BCmpAt(a, b, i - 1)

BCmp(a, b) == IF Len(a) < Len(b) THEN -1
              ELSE IF Len(a) > Len(b) THEN 1
              ELSE BCmpAt(a, b, Len(a))

\* a * k + c for 0 <= k, c < Base
RECURSIVE BMulSmallC(_, _, _)
BMulSmallC(a, k, c) ==
    IF a = <<>> THEN (IF c = 0 THEN <<>> ELSE <<c>>)
    ELSE LET p == Head(a) * k + c
         IN  <<p % Base>> \o BMulSmallC(Tail(a), k, p \div Base)

BMulSmall(a, k) == BNorm(BMulSmallC(a, k, 0))

RECURSIVE BMul(_, _)
BMul(a, b) == IF b = <<>> \/ a = <<>> THEN <<>>
              ELSE BNorm(BAdd(BMulSmall(a, Head(b)), <<0>> \o BMul(a, Tail(b))))

\* quotient and remainder of a by a divisor 0 < d < Base
RECURSIVE BDivSmallAt(_, _, _, _, _)
BDivSmallAt(a, d, i, r, q) ==
    IF i = 0 THEN [q |-> BNorm(q), r |-> r]
    ELSE LET x == r * Base + a[i]
         IN  BDivSmallAt(a, d, i - 1, x % d, <<x \div d>> \o q)

BDivSmall(a, d) == BDivSmallAt(a, d, Len(a), 0, <<>>)

RECURSIVE BitLenSmall(_)
BitLenSmall(x) == IF x = 0 THEN 0 ELSE 1 + BitLenSmall(x \div 2)

BBitLen(n) == IF n = <<>> THEN 0
              ELSE 15 * (Len(n) - 1) + BitLenSmall(n[Len(n)])

Zeros(k) == [i \in 1..k |-> 0]

\* n * 2^k
BShl(n, k) == IF n = <<>> THEN <<>>
              ELSE Zeros(k \div 15) \o BMulSmall(n, Pow2(k % 15))

\* floor(n / 2^k)
BShr(n, k) == IF Len(n) <= k \div 15 THEN <<>>
              ELSE BDivSmall(SubSeq(n, (k \div 15) + 1, Len(n)), Pow2(k % 15)).q

\* ------------------------------------------------------------------------
\* IEEE-754 binary64 values: sign * m * 2^e, m < 2^53 (or = 2^53).
\* ------------------------------------------------------------------------
MantBits == 53

FZero == [sign |-> 1, m |-> <<>>, e |-> 0]

\* the exact value sign * n * 2^e (plus a nonzero tail below n's last bit
\* when sticky), rounded to nearest, ties to even
FRound(sign, n, e, sticky) ==
    LET L == BBitLen(n) IN
    IF n = <<>> THEN FZero
    ELSE IF L <= MantBits THEN [sign |-> sign, m |-> n, e |-> e]
    ELSE LET k    == L - MantBits
             Q    == BShr(n, k)
             R    == BSub(n, BShl(Q, k))
             c    == BCmp(BShl(R, 1), BShl(<<1>>, k))
             up   == c = 1 \/ (c = 0 /\ (sticky \/ Q[1] % 2 = 1))
         IN  [sign |-> sign,
              m    |-> IF up THEN BAdd(Q, <<1>>) ELSE Q,
              e    |-> e + k]

FFromInt(i) == [sign |-> IF i < 0 THEN -1 ELSE 1, m |-> BFromInt(Abs(i)), e |-> 0]

FNeg(a) == [a EXCEPT !.sign = -a.sign]

FIsZero(a) == a.m = <<>>

FMul(a, b) == FRound(a.sign * b.sign, BMul(a.m, b.m), a.e + b.e, FALSE)

\* a / d for an integer divisor 0 < d < Base
FDivInt(a, d) ==
    LET qr == BDivSmall(BShl(a.m, 75), d)
    IN  FRound(a.sign, qr.q, a.e - 75, qr.r # 0)

FAdd(a, b) ==
    LET e == Min2(a.e, b.e)
        A == BShl(a.m, a.e - e)
        B == BShl(b.m, b.e - e)
        c == BCmp(A, B)
    IN  IF a.sign = b.sign THEN FRound(a.sign, BAdd(A, B), e, FALSE)
        ELSE IF c = 0 THEN FZero
        ELSE IF c = 1 THEN FRound(a.sign, BSub(A, B), e, FALSE)
        ELSE FRound(b.sign, BSub(B, A), e, FALSE)

FLess(a, b) == LET d == FAdd(a, FNeg(b)) IN ~FIsZero(d) /\ d.sign = -1

FEq(a, b) == FIsZero(FAdd(a, FNeg(b)))

\* int(x): truncation toward zero
FTrunc(a) == a.sign * BToInt(IF a.e >= 0 THEN BShl(a.m, a.e) ELSE BShr(a.m, -a.e))


\* ------------------------------------------------------------------------
\* Strings are sequences of one-character strings; a 32-bit ARGB integer is
\* the sequence <<A, R, G, B>> of its four bytes, most significant first.
\* ------------------------------------------------------------------------
HexUpper == <<"0","1","2","3","4","5","6","7","8","9","A","B","C","D","E","F">>

HexLower == <<"0","1","2","3","4","5","6","7","8","9","a","b","c","d","e","f">>

IsHexDigit(ch) == \E i \in 1..16 : HexUpper[i] = ch \/ HexLower[i] = ch

HexDigitVal(ch) == (CHOOSE i \in 1..16 : HexUpper[i] = ch \/ HexLower[i] = ch) - 1

\* int(s, 16) for the strings the program passes; -1 stands for ValueError
RECURSIVE ParseHex(_)
ParseHex(s) ==
    IF s = <<>> \/ \E i \in 1..Len(s) : ~IsHexDigit(s[i]) THEN -1
    ELSE IF Len(s) = 1 THEN HexDigitVal(s[1])
    ELSE 16 * ParseHex(SubSeq(s, 1, Len(s) - 1)) + HexDigitVal(s[Len(s)])

\* "{:02X}".format(n) for 0 <= n <= 255
Fmt02X(n) == <<HexUpper[(n \div 16) + 1], HexUpper[(n % 16) + 1]>>

\* "#{:02X}{:02X}{:02X}".format(r, g, b)
FmtHex(r, g, b) == <<"#">> \o Fmt02X(r) \o Fmt02X(g) \o Fmt02X(b)

\* s[i:j] with 0 <= i <= j
Slice(s, i, j) == SubSeq(s, i + 1, Min2(j, Len(s)))

RECURSIVE LStripHash(_)
LStripHash(s) == IF s # <<>> /\ Head(s) = "#" THEN LStripHash(Tail(s)) ELSE s

\* the outcome of a call that raised ValueError (no ARGB value is empty)
ValueError == <<>>

argb_to_hex(argb) == FmtHex(argb[2], argb[3], argb[4])

hex_to_argb(hex_code) ==
    LET h == LStripHash(hex_code)
        r == ParseHex(Slice(h, 0, 2))
        g == ParseHex(Slice(h, 2, 4))
        b == ParseHex(Slice(h, 4, 6))
    IN  IF r = -1 \/ g = -1 \/ b = -1 THEN ValueError
        ELSE <<255, r, g, b>>

\* int((c1 + (c2 - c1)) * amount): the sum scaled instead of the difference
BlendChannelScaledSum(c1, c2, amount) ==
    FTrunc(FMul(FAdd(FFromInt(c1), FFromInt(c2 - c1)), amount))

\* blend_colors with its float arithmetic; amount is a float
BlendChannel(c1, c2, amount) ==
    FTrunc(FAdd(FFromInt(c1), FMul(FFromInt(c2 - c1), amount)))

blend_colors(hex1, hex2, amount) ==
    LET r1 == ParseHex(Slice(hex1, 1, 3))
        g1 == ParseHex(Slice(hex1, 3, 5))
        b1 == ParseHex(Slice(hex1, 5, 7))
        r2 == ParseHex(Slice(hex2, 1, 3))
        g2 == ParseHex(Slice(hex2, 3, 5))
        b2 == ParseHex(Slice(hex2, 5, 7))
    IN  FmtHex(BlendChannel(r1, r2, amount),
               BlendChannel(g1, g2, amount),
               BlendChannel(b1, b2, amount))

\* ------------------------------------------------------------------------
\* Colour extraction
\* ------------------------------------------------------------------------
SampleSize == 1000

SatThreshold == 15

ChromaThreshold == 10

\* The pixel list of an image: n pixels, the i-th (from 0) being
\* pat[(i mod Len(pat)) + 1].
PixelAt(pixels, i) == pixels.pat[(i % Len(pixels.pat)) + 1]

Max3(r, g, b) == Max2(r, Max2(g, b))

Min3(r, g, b) == Min2(r, Min2(g, b))

\* one iteration of the loop body at index i: the running (total_sat, count)
SatStep(pixels, i, acc) ==
    LET p     == PixelAt(pixels, i)
        max_c == Max3(p[1], p[2], p[3])
        min_c == Min3(p[1], p[2], p[3])
    IN  [total_sat |-> IF max_c > 0
                       THEN FAdd(acc.total_sat,
                                 FDivInt(FFromInt(max_c - min_c), max_c))
                       ELSE acc.total_sat,
         count     |-> acc.count + 1]

\* for i in range(0, total, step): the iterations numbered lo .. hi-1, in
\* order (the range is split in two so that the evaluation is not 1000 deep)
RECURSIVE SatLoop(_, _, _, _, _)
SatLoop(pixels, step, lo, hi, acc) ==
    IF hi <= lo THEN acc
    ELSE IF hi = lo + 1 THEN SatStep(pixels, lo * step, acc)
    ELSE LET mid  == (lo + hi) \div 2
             left == SatLoop(pixels, step, lo, mid, acc)
         IN  IF left.count = acc.count + (mid - lo)
             THEN SatLoop(pixels, step, mid, hi, left)
             ELSE left

calculate_saturation_sampled(pixels) ==
    IF pixels.n = 0 THEN FZero
    ELSE LET total == pixels.n
             step  == Max2(1, total \div SampleSize)
             iters == (total + step - 1) \div step
             acc   == SatLoop(pixels, step, 0, iters,
                              [total_sat |-> FZero, count |-> 0])
         IN  IF acc.count > 0
             THEN FMul(FDivInt(acc.total_sat, acc.count), FFromInt(100))
             ELSE FZero

\* the size passed to image.resize, or the size left alone
ResizedSize(w, h, size) ==
    IF w > size \/ h > size
    THEN LET scale == FDivInt(FFromInt(size), Max2(w, h))
         IN  <<Max2(1, FTrunc(FMul(FFromInt(w), scale))),
               Max2(1, FTrunc(FMul(FFromInt(h), scale)))>>
    ELSE <<w, h>>

Gray == <<255, 128, 128, 128>>

None == <<>>

\* ------------------------------------------------------------------------
\* Scheme classes and role colours
\* ------------------------------------------------------------------------
SchemeNames == {"tonal-spot", "content", "expressive", "fidelity", "monochrome",
                "neutral", "vibrant", "fruit-salad", "rainbow"}

\* the schemes dictionary of get_scheme_class
schemes == [n \in SchemeNames |->
              CASE n = "tonal-spot"  -> "SchemeTonalSpot"
                [] n = "content"     -> "SchemeContent"
                [] n = "expressive"  -> "SchemeExpressive"
                [] n = "fidelity"    -> "SchemeFidelity"
                [] n = "monochrome"  -> "SchemeMonochrome"
                [] n = "neutral"     -> "SchemeNeutral"
                [] n = "vibrant"     -> "SchemeVibrant"
                [] n = "fruit-salad" -> "SchemeFruitSalad"
                [] n = "rainbow"     -> "SchemeRainbow"]

\* schemes.get(scheme_name, schemes['tonal-spot'])
SchemesGet(scheme_name) ==
    IF scheme_name \in DOMAIN schemes THEN schemes[scheme_name]
    ELSE schemes["tonal-spot"]

\* a cache that answers with whatever class it holds, whatever the name
get_scheme_class_any_hit(cache, scheme_name) ==
    IF DOMAIN cache # {}
    THEN [cls |-> cache[CHOOSE n \in DOMAIN cache : TRUE], cache |-> cache]
    ELSE LET cls == SchemesGet(scheme_name)
         IN  [cls   |-> cls,
              cache |-> [n \in {scheme_name} |-> cls]]

\* get_scheme_class: the class returned and the cache afterwards
get_scheme_class(cache, scheme_name) ==
    IF scheme_name \in DOMAIN cache
    THEN [cls |-> cache[scheme_name], cache |-> cache]
    ELSE LET cls == SchemesGet(scheme_name)
         IN  [cls   |-> cls,
              cache |-> [n \in DOMAIN cache \cup {scheme_name} |->
                           IF n = scheme_name THEN cls ELSE cache[n]]]

\* dir(MaterialDynamicColors), in dir()'s sorted order: the names the loop
\* visits.  us: the name starts with an underscore; hct: the attribute has
\* get_hct.
Attrs == <<
    [name |-> "__init__",                us |-> TRUE,  hct |-> FALSE],
    [name |-> "background",              us |-> FALSE, hct |-> TRUE],
    [name |-> "contentAccentToneDelta",  us |-> FALSE, hct |-> FALSE],
    [name |-> "error",                   us |-> FALSE, hct |-> TRUE],
    [name |-> "highestSurface",          us |-> FALSE, hct |-> FALSE],
    [name |-> "onBackground",            us |-> FALSE, hct |-> TRUE],
    [name |-> "onError",                 us |-> FALSE, hct |-> TRUE],
    [name |-> "onPrimary",               us |-> FALSE, hct |-> TRUE],
    [name |-> "onSurface",               us |-> FALSE, hct |-> TRUE],
    [name |-> "outline",                 us |-> FALSE, hct |-> TRUE],
    [name |-> "outlineVariant",          us |-> FALSE, hct |-> TRUE],
    [name |-> "primary",                 us |-> FALSE, hct |-> TRUE],
    [name |-> "primaryContainer",        us |-> FALSE, hct |-> TRUE],
    [name |-> "secondary",               us |-> FALSE, hct |-> TRUE],
    [name |-> "shadow",                  us |-> FALSE, hct |-> TRUE],
    [name |-> "surface",                 us |-> FALSE, hct |-> TRUE],
    [name |-> "surfaceContainer",        us |-> FALSE, hct |-> TRUE],
    [name |-> "surfaceContainerHigh",    us |-> FALSE, hct |-> TRUE],
    [name |-> "surfaceContainerHighest", us |-> FALSE, hct |-> TRUE],
    [name |-> "surfaceContainerLow",     us |-> FALSE, hct |-> TRUE],
    [name |-> "tertiary",                us |-> FALSE, hct |-> TRUE] >>

\* the role names: the attributes the loop does not skip
Roles == {Attrs[i].name : i \in {j \in 1..Len(Attrs) : ~Attrs[j].us /\ Attrs[j].hct}}

ClassIndex(cls) ==
    CASE cls = "SchemeTonalSpot"  -> 0
      [] cls = "SchemeContent"    -> 1
      [] cls = "SchemeExpressive" -> 2
      [] cls = "SchemeFidelity"   -> 3
      [] cls = "SchemeMonochrome" -> 4
      [] cls = "SchemeNeutral"    -> 5
      [] cls = "SchemeVibrant"    -> 6
      [] cls = "SchemeFruitSalad" -> 7
      [] cls = "SchemeRainbow"    -> 8

\* attr.get_hct(scheme).to_rgba() for scheme = cls(Hct.from_int(argb),
\* is_dark, 0.0) and the i-th attribute.  The tone mapping belongs to the
\* materialyoucolor package; what the program relies on is that the value is
\* a function of (class, seed, mode, role), which this stand-in is, and that
\* the monochrome class has no chroma (equal channels).
RoleRgba(cls, argb, is_dark, i) ==
    LET tone == (i * 29 + ClassIndex(cls) * 7 + (IF is_dark THEN 0 ELSE 128)) % 256
    IN  IF cls = "SchemeMonochrome" THEN <<tone, tone, tone>>
        ELSE <<(argb[2] + tone) % 256,
               (argb[3] + 2 * tone) % 256,
               (argb[4] + 3 * tone) % 256>>

\* a failed role given a black placeholder instead of being left out
RoleStepPlaceholder(cls, argb, is_dark, fail, items, i) ==
    LET attr == Attrs[i] IN
    IF attr.us THEN items
    ELSE IF ~attr.hct THEN items
    ELSE IF attr.name \in fail
    THEN Append(items, <<attr.name, FmtHex(0, 0, 0)>>)
    ELSE LET rgba == RoleRgba(cls, argb, is_dark, i)
         IN  Append(items, <<attr.name, FmtHex(rgba[1], rgba[2], rgba[3])>>)

\* the body of the loop over dir(): the (name, value) items of colors after
\* visiting attribute i, when get_hct/to_rgba raises for the roles in fail
RoleStep(cls, argb, is_dark, fail, items, i) ==
    LET attr == Attrs[i] IN
    IF attr.us THEN items
    ELSE IF ~attr.hct THEN items
    ELSE IF attr.name \in fail THEN items
    ELSE LET rgba == RoleRgba(cls, argb, is_dark, i)
         IN  Append(items, <<attr.name, FmtHex(rgba[1], rgba[2], rgba[3])>>)

\* the try around the whole loop: the first failure ends it
RECURSIVE RoleLoopAbort(_, _, _, _, _, _)
RoleLoopAbort(cls, argb, is_dark, fail, items, i) ==
    IF i > Len(Attrs) THEN items
    ELSE IF ~Attrs[i].us /\ Attrs[i].hct /\ Attrs[i].name \in fail THEN items
    ELSE LET next == RoleStep(cls, argb, is_dark, fail, items, i)
         IN  IF Len(next) >= Len(items)
             THEN RoleLoopAbort(cls, argb, is_dark, fail, next, i + 1)
             ELSE next

RECURSIVE RoleLoop(_, _, _, _, _, _)
RoleLoop(cls, argb, is_dark, fail, items, i) ==
    IF i > Len(Attrs) THEN items
    ELSE LET next == RoleStep(cls, argb, is_dark, fail, items, i)
         IN  IF Len(next) >= Len(items)
             THEN RoleLoop(cls, argb, is_dark, fail, next, i + 1)
             ELSE next

\* the dict holding the items (each key was set once)
DictOf(items) ==
    [n \in {items[k][1] : k \in 1..Len(items)} |->
       items[CHOOSE k \in 1..Len(items) : items[k][1] = n][2]]

EmptyDict == [n \in {} |-> <<>>]

\* generate_material_colors: the palette returned and the cache afterwards
generate_material_colors(cache, argb, is_dark_mode, scheme_name, fail) ==
    LET g == get_scheme_class(cache, scheme_name)
    IN  [colors |-> DictOf(RoleLoop(g.cls, argb, is_dark_mode, fail, <<>>, 1)),
         cls    |-> g.cls,
         cache  |-> g.cache]

\* dict.get(key, default)
Get(d, key, default) == IF key \in DOMAIN d THEN d[key] ELSE default

Lit(a, b, c, d, e, f) == <<"#", a, b, c, d, e, f>>

\* 0.5 in place of 0.15
tint_half == FDivInt(FFromInt(5), 10)

tint == FDivInt(FFromInt(15), 100)

TintDim == FMul(tint, FDivInt(FFromInt(7), 10))

TintHover == FMul(tint, FDivInt(FFromInt(13), 10))

generate_shell_colors(mc) ==
    LET surface                   == Get(mc, "surface", Lit("1","a","1","a","1","a"))
        surface_container         == Get(mc, "surfaceContainer", Lit("1","e","1","e","1","e"))
        surface_container_high    == Get(mc, "surfaceContainerHigh", Lit("2","8","2","8","2","8"))
        surface_container_highest == Get(mc, "surfaceContainerHighest", Lit("3","3","3","3","3","3"))
        primary_container         == Get(mc, "primaryContainer", Lit("0","0","4","c","9","9"))
    IN  [backgroundColor       |-> blend_colors(surface_container, primary_container, tint),
         backgroundColorDim    |-> blend_colors(surface, primary_container, TintDim),
         backgroundColorBright |-> blend_colors(surface_container_highest, primary_container, tint),
         backgroundColorHover  |-> blend_colors(surface_container_highest, primary_container, TintHover),
         foregroundColor       |-> Get(mc, "onSurface", Lit("f","f","f","f","f","f")),
         dimmedColor           |-> Get(mc, "outline", Lit("8","8","8","8","8","8")),
         accentColor           |-> Get(mc, "primary", Lit("0","0","7","A","F","F")),
         accentColorDim        |-> Get(mc, "primaryContainer", Lit("0","0","4","c","9","9")),
         onAccentColor         |-> Get(mc, "onPrimary", Lit("f","f","f","f","f","f")),
         secondaryColor        |-> Get(mc, "secondary", Lit("6","6","6","6","6","6")),
         tertiaryColor         |-> Get(mc, "tertiary", Lit("8","8","8","8","8","8")),
         surfaceContainer      |-> Get(mc, "surfaceContainerHigh",
                                       Get(mc, "surfaceContainer", Lit("1","e","1","e","1","e"))),
         surfaceContainerLow   |-> Get(mc, "surfaceContainer",
                                       Get(mc, "surfaceContainerLow", Lit("1","a","1","a","1","a"))),
         surfaceContainerHigh  |-> Get(mc, "surfaceContainerHighest",
                                       Get(mc, "surfaceContainerHigh", Lit("2","8","2","8","2","8"))),
         workspaceActive       |-> Get(mc, "primary", Lit("f","f","f","f","f","f")),
         workspaceInactive     |-> Get(mc, "outlineVariant", Lit("5","5","5","5","5","5")),
         workspaceUrgent       |-> Get(mc, "error", Lit("f","f","5","5","5","5")),
         errorColor            |-> Get(mc, "error", Lit("f","f","5","5","5","5")),
         onErrorColor          |-> Get(mc, "onError", Lit("f","f","f","f","f","f")),
         successColor          |-> Lit("4","a","d","e","8","0"),
         warningColor          |-> Lit("f","f","a","7","2","6"),
         borderColor           |-> Get(mc, "outlineVariant", Lit("3","3","3","3","3","3")),
         shadowColor           |-> Get(mc, "shadow", Lit("0","0","0","0","0","0"))]

\* ------------------------------------------------------------------------
\* Inputs
\* ------------------------------------------------------------------------
MaxFail == 2

MaxDim == 50

DefaultSize == 64

Modes == {"dark", "light"}

Sizes == {2, DefaultSize}

\* --color arguments, the last one too short to hold three channels
ColorArgs == {Lit("8","0","8","0","8","0"),
              <<"f","f","5","5","0","0">>,
              <<"#","f","f">>}

PathArgs == [src : {"path"}, color : {None}, mode : Modes, scheme : SchemeNames,
             size : Sizes, output : BOOLEAN]

LiteralArgs == [src : {"color"}, color : ColorArgs, mode : Modes,
                scheme : SchemeNames, size : {DefaultSize}, output : BOOLEAN]

PxGray == <<128, 128, 128>>

PxBlack == <<0, 0, 0>>

PxRed == <<255, 0, 0>>

\* saturation 0.15 and 0.12
PxPale == <<200, 180, 170>>

PxDull == <<100, 90, 88>>

\* decoded RGB images: width, height and the pixel pattern
Images == {[w |-> 1,   h |-> 1,   pat |-> <<PxGray>>],
           [w |-> 1,   h |-> 1,   pat |-> <<PxPale>>],
           [w |-> 2,   h |-> 1,   pat |-> <<PxDull, PxBlack>>],
           [w |-> 3,   h |-> 2,   pat |-> <<PxRed, PxGray>>],
           [w |-> 128, h |-> 128, pat |-> <<PxGray, PxRed, PxRed, PxRed>>]}

\* colours the quantizer may report, and Hct.from_int(c).chroma for them in
\* tenths (the perceptual model belongs to materialyoucolor)
CandVivid == <<255, 255, 85, 0>>

CandDull == <<255, 122, 133, 128>>

CandEdge == <<255, 150, 128, 120>>

ChromaTenths(c) == CASE c = CandVivid -> 876
                     [] c = CandDull  -> 99
                     [] c = CandEdge  -> 100
                     [] OTHER         -> 0

HctChroma(c) == FDivInt(FFromInt(ChromaTenths(c)), 10)

\* what Score.score may return, best first
ScoredSeqs == {<<>>, <<CandVivid>>, <<CandDull>>, <<CandEdge>>,
               <<CandDull, CandVivid>>, <<CandVivid, CandDull>>,
               <<CandEdge, CandDull>>}

\* sets of roles whose computation raises: a few, or all but a few
RECURSIVE SubsetsUpTo(_, _)
SubsetsUpTo(S, k) ==
    IF k = 0 THEN {{}}
    ELSE LET smaller == SubsetsUpTo(S, k - 1)
         IN  smaller \cup {F \cup {x} : F \in smaller, x \in S}

FailSets == LET few == SubsetsUpTo(Roles, MaxFail)
            IN  few \cup {Roles \ F : F \in few}

\* the failures drawn in a run of main
MainFailSets == {{}, {"primary", "surfaceContainerHigh"}}

\* ------------------------------------------------------------------------
\* State
\* ------------------------------------------------------------------------
VARIABLES
    pc,            \* where main is
    args,          \* the parsed command line
    deps_loaded,   \* _PIL_Image is not None
    avg_sat,       \* extract_color_from_image: avg_sat
    scored,        \* extract_color_from_image: scored
    result,        \* main: result
    argb,          \* main: argb
    use_mono,      \* main: use_mono
    scheme,        \* main: scheme
    material,      \* main: material
    shell,         \* main: shell
    stdout,        \* documents printed
    out_file,      \* the documents written to args.output
    stderr,        \* diagnostics printed, in order
    exit_code,     \* the process's exit status, -1 while running
    scheme_cache,  \* _scheme_cache
    ran,           \* the library stages and generators that have run
    call           \* the last call of a module function by another caller

vars == <<pc, args, deps_loaded, avg_sat, scored, result, argb, use_mono, scheme,
          material, shell, stdout, out_file, stderr, exit_code, scheme_cache,
          ran, call>>

NoCall == [fn |-> "none"]

NoFloat == [sign |-> 0, m |-> <<>>, e |-> 0]

\* scored[-1]
BestOfLast(sc) == sc[Len(sc)]

\* scored[0]
BestOf(sc) == sc[1]

\* the flag ignored
EffectiveSchemeRequested(mono, requested) == requested

\* the fallback applied to every seed
EffectiveSchemeMonochrome(mono, requested) == "monochrome"

\* main, line 337
EffectiveScheme(mono, requested) == IF mono THEN "monochrome" ELSE requested

Locals0 ==
    /\ deps_loaded = FALSE
    /\ avg_sat = NoFloat
    /\ scored = <<>>
    /\ result = None
    /\ argb = None
    /\ use_mono = FALSE
    /\ scheme = ""
    /\ material = EmptyDict
    /\ shell = EmptyDict
    /\ stdout = <<>>
    /\ out_file = <<>>
    /\ stderr = <<>>
    /\ exit_code = -1
    /\ scheme_cache = EmptyDict
    /\ ran = {}

Init ==
    /\ pc = "main"
    /\ args \in PathArgs \cup LiteralArgs
    /\ Locals0
    /\ call = NoCall

\* sys.exit(0)
Exit0(msg) ==
    /\ pc' = "exit"
    /\ exit_code' = 0
    /\ stderr' = Append(stderr, msg)

\* sys.exit(1), or an exception nobody catches
Exit1(msg) ==
    /\ pc' = "exit"
    /\ exit_code' = 1
    /\ stderr' = Append(stderr, msg)

\* main, lines 316-335: the source of the seed
MainSeed ==
    /\ pc = "main"
    /\ IF args.src = "path"
       THEN \E exists \in BOOLEAN :
              IF ~exists
              THEN /\ Exit1("ERROR: File not found")
                   /\ UNCHANGED argb
              ELSE /\ pc' = "extract"
                   /\ UNCHANGED <<argb, exit_code, stderr>>
       ELSE LET v == hex_to_argb(args.color)
            IN  IF v = ValueError
                THEN /\ Exit1("Traceback: ValueError")
                     /\ UNCHANGED argb
                ELSE /\ argb' = v
                     /\ pc' = "generate"
                     /\ UNCHANGED <<exit_code, stderr>>
    /\ UNCHANGED <<args, deps_loaded, avg_sat, scored, result, use_mono, scheme,
                   material, shell, stdout, out_file, scheme_cache, ran, call>>

\* extract_color_from_image, lines 126-166: load, open, convert, resize, list
\* the pixels, gate on the sampled saturation
ExtractSample ==
    /\ pc = "extract"
    /\ \E deps_ok \in BOOLEAN, decodable \in BOOLEAN, img \in Images :
         IF ~deps_ok
         THEN /\ Exit1("ERROR: Missing dependencies")
              /\ UNCHANGED <<deps_loaded, avg_sat, result, ran>>
         ELSE IF ~decodable
         THEN /\ Exit1("Traceback: UnidentifiedImageError")
              /\ deps_loaded' = TRUE
              /\ ran' = ran \cup {"open"}
              /\ UNCHANGED <<avg_sat, result>>
         ELSE LET sz     == ResizedSize(img.w, img.h, args.size)
                  pixels == [n |-> sz[1] * sz[2], pat |-> img.pat]
                  sat    == calculate_saturation_sampled(pixels)
              IN  /\ deps_loaded' = TRUE
                  /\ avg_sat' = sat
                  /\ ran' = ran \cup {"open"}
                  /\ IF FLess(sat, FFromInt(SatThreshold))
                     THEN /\ stderr' = Append(stderr, "Low saturation, using monochrome")
                          /\ result' = <<Gray, TRUE>>
                          /\ pc' = "extracted"
                     ELSE /\ pc' = "quantize"
                          /\ UNCHANGED <<stderr, result>>
                  /\ UNCHANGED exit_code
    /\ UNCHANGED <<args, scored, argb, use_mono, scheme, material, shell, stdout,
                   out_file, scheme_cache, call>>

\* extract_color_from_image, lines 168-183: quantize, score, verify chroma
ExtractScore ==
    /\ pc = "quantize"
    /\ \E sc \in ScoredSeqs :
         /\ scored' = sc
         /\ ran' = ran \cup {"quantize", "score"}
         /\ IF sc = <<>>
            THEN /\ result' = <<None, FALSE>>
                 /\ UNCHANGED stderr
            ELSE LET best == BestOf(sc) IN
                 IF FLess(HctChroma(best), FFromInt(ChromaThreshold))
                 THEN /\ stderr' = Append(stderr, "Low chroma, using monochrome")
                      /\ result' = <<Gray, TRUE>>
                 ELSE /\ result' = <<best, FALSE>>
                      /\ UNCHANGED stderr
    /\ pc' = "extracted"
    /\ UNCHANGED <<args, deps_loaded, avg_sat, argb, use_mono, scheme, material,
                   shell, stdout, out_file, exit_code, scheme_cache, call>>

\* main, lines 326-330
MainResult ==
    /\ pc = "extracted"
    /\ IF result = None \/ result[1] = None
       THEN /\ Exit1("ERROR: Could not extract color")
            /\ UNCHANGED <<argb, use_mono>>
       ELSE /\ argb' = result[1]
            /\ use_mono' = result[2]
            /\ pc' = "generate"
            /\ UNCHANGED <<exit_code, stderr>>
    /\ UNCHANGED <<args, deps_loaded, avg_sat, scored, result, scheme, material,
                   shell, stdout, out_file, scheme_cache, ran, call>>

\* main, lines 337-339: choose the scheme, generate the Role Palette
MainGenerate ==
    /\ pc = "generate"
    /\ LET s == EffectiveScheme(use_mono, args.scheme) IN
       \E deps_ok \in BOOLEAN, fail \in MainFailSets :
         /\ scheme' = s
         /\ IF ~deps_loaded /\ ~deps_ok
            THEN /\ Exit1("ERROR: Missing dependencies")
                 /\ UNCHANGED <<deps_loaded, material, scheme_cache, ran>>
            ELSE LET g == generate_material_colors(scheme_cache, argb,
                                                   args.mode = "dark", s, fail)
                 IN  /\ deps_loaded' = TRUE
                     /\ material' = g.colors
                     /\ scheme_cache' = g.cache
                     /\ ran' = ran \cup {"generate"}
                     /\ pc' = "shell"
                     /\ UNCHANGED <<exit_code, stderr>>
    /\ UNCHANGED <<args, avg_sat, scored, result, argb, use_mono, shell, stdout,
                   out_file, call>>

\* main, line 340
MainShell ==
    /\ pc = "shell"
    /\ shell' = generate_shell_colors(material)
    /\ ran' = ran \cup {"shell"}
    /\ pc' = "output"
    /\ UNCHANGED <<args, deps_loaded, avg_sat, scored, result, argb, use_mono,
                   scheme, material, stdout, out_file, stderr, exit_code,
                   scheme_cache, call>>

\* main, lines 342-356
MainOutput ==
    /\ pc = "output"
    /\ LET output == [mode      |-> args.mode,
                      scheme    |-> scheme,
                      seedColor |-> argb_to_hex(argb),
                      material  |-> material,
                      shell     |-> shell]
       IN  IF args.output
           THEN /\ out_file' = Append(out_file, output)
                /\ UNCHANGED stdout
           ELSE /\ stdout' = Append(stdout, output)
                /\ UNCHANGED out_file
    /\ pc' = "done"
    /\ exit_code' = 0
    /\ UNCHANGED <<args, deps_loaded, avg_sat, scored, result, argb, use_mono,
                   scheme, material, shell, stderr, scheme_cache, ran, call>>

Next ==
    \/ MainSeed
    \/ ExtractSample
    \/ ExtractScore
    \/ MainResult
    \/ MainGenerate
    \/ MainShell
    \/ MainOutput

Spec == Init /\ [][Next]_vars

\* ------------------------------------------------------------------------
\* The module's functions called directly (the module imported by another
\* program): main does not run, _scheme_cache lives across the calls.
\* ------------------------------------------------------------------------
NoArgs == [src |-> "none"]

LibInit ==
    /\ pc = "lib"
    /\ args = NoArgs
    /\ Locals0
    /\ call = NoCall

LibUnchanged ==
    UNCHANGED <<pc, args, deps_loaded, avg_sat, scored, result, argb, use_mono,
                scheme, material, shell, stdout, out_file, stderr, exit_code, ran>>

\* variant names passed by callers; "sunset" is not in the table
LibNames == {"tonal-spot", "monochrome", "vibrant", "rainbow", "sunset"}

GenNames == {"monochrome", "sunset"}

LibSeeds == {<<255, 255, 85, 0>>}

GetSchemeClassCall(names) ==
    /\ pc = "lib"
    /\ \E name \in names :
         LET g == get_scheme_class(scheme_cache, name)
         IN  /\ call' = [fn |-> "get_scheme_class", name |-> name, cls |-> g.cls,
                         cached |-> name \in DOMAIN scheme_cache]
             /\ scheme_cache' = g.cache
    /\ LibUnchanged

GenerateCall(names, fails) ==
    /\ pc = "lib"
    /\ \E seed \in LibSeeds, dark \in BOOLEAN, name \in names, fail \in fails :
         LET g == generate_material_colors(scheme_cache, seed, dark, name, fail)
         IN  /\ call' = [fn |-> "generate_material_colors", argb |-> seed,
                         is_dark |-> dark, name |-> name, fail |-> fail,
                         cls |-> g.cls, colors |-> g.colors,
                         cached |-> name \in DOMAIN scheme_cache]
             /\ scheme_cache' = g.cache
    /\ LibUnchanged

\* any sequence of get_scheme_class and generate_material_colors calls
CallGetSchemeClass == GetSchemeClassCall(LibNames)

CallGenerateAgain == GenerateCall(LibNames, MainFailSets)

CacheNext == CallGetSchemeClass \/ CallGenerateAgain

SpecCache == LibInit /\ [][CacheNext]_vars

\* one generate_material_colors call, with any of the failure sets, after
\* any get_scheme_class calls
WarmCache ==
    /\ call.fn # "generate_material_colors"
    /\ GetSchemeClassCall(GenNames)

CallGenerate ==
    /\ call.fn # "generate_material_colors"
    /\ GenerateCall(GenNames, FailSets)

GenNext == WarmCache \/ CallGenerate

SpecGen == LibInit /\ [][GenNext]_vars

\* generate_shell_colors on the palettes generate_material_colors returns
CallShell ==
    /\ pc = "lib"
    /\ call.fn = "none"
    /\ \E seed \in LibSeeds, dark \in BOOLEAN, name \in {"vibrant"},
          fail \in FailSets :
         LET mc == generate_material_colors(EmptyDict, seed, dark, name, fail).colors
         IN  call' = [fn |-> "generate_shell_colors", mc |-> mc,
                      shell |-> generate_shell_colors(mc)]
    /\ UNCHANGED scheme_cache
    /\ LibUnchanged

SpecShell == LibInit /\ [][CallShell]_vars

\* blend_colors
ChanVals == {0, 1, 127, 128, 254, 255}

BlendColors == {FmtHex(x, y, 255 - x) : x \in ChanVals, y \in ChanVals}
                 \cup {Lit("1","a","1","a","1","a"), Lit("0","0","4","c","9","9")}

\* the amounts passed: 0, 1, 0.5 and the three tints
Amounts == [zero |-> FFromInt(0), one |-> FFromInt(1),
            half |-> FDivInt(FFromInt(1), 2), tint |-> tint,
            dim |-> TintDim, hover |-> TintHover]

CallBlend ==
    /\ pc = "lib"
    /\ call.fn = "none"
    /\ \E hex1 \in BlendColors, hex2 \in BlendColors, a \in DOMAIN Amounts :
         call' = [fn |-> "blend_colors", hex1 |-> hex1, hex2 |-> hex2,
                  amount |-> a, ret |-> blend_colors(hex1, hex2, Amounts[a])]
    /\ UNCHANGED scheme_cache
    /\ LibUnchanged

SpecBlend == LibInit /\ [][CallBlend]_vars

\* extract_color_from_image, lines 143-159: the size sampled and the number
\* of pixels listed
ResizeSizes == {1, 2, 3, DefaultSize}

Dims == (1..MaxDim) \cup {98, 128}

CallResize ==
    /\ pc = "lib"
    /\ call.fn = "none"
    /\ \E w \in Dims, h \in Dims, size \in ResizeSizes :
         LET sz == ResizedSize(w, h, size)
         IN  call' = [fn |-> "resize", w |-> w, h |-> h, size |-> size,
                      w2 |-> sz[1], h2 |-> sz[2], n |-> sz[1] * sz[2]]
    /\ UNCHANGED scheme_cache
    /\ LibUnchanged

SpecResize == LibInit /\ [][CallResize]_vars

\* ------------------------------------------------------------------------
\* Properties
\* ------------------------------------------------------------------------
Docs == stdout \o out_file

Gray808080 == Lit("8","0","8","0","8","0")

LowSaturation == avg_sat # NoFloat /\ FLess(avg_sat, FFromInt(15))

Generated == pc \in {"shell", "output", "done"}

\* what the cache holds after one generation with the class cls under name n
OnlyCached(n, cls) == DOMAIN scheme_cache = {n} /\ scheme_cache[n] = cls

\* C1: when the sampled average saturation is below 15 the extraction
\* returns the gray seed with the monochrome flag without quantizing or
\* scoring, the run does not fail, the Role Palette is generated with the
\* monochrome class, and the document reports seed #808080 and scheme
\* monochrome, whatever variant and mode were requested.
C1_MonochromeTrigger ==
    LowSaturation =>
        /\ result = <<Gray, TRUE>>
        /\ "quantize" \notin ran /\ "score" \notin ran
        /\ pc # "exit"
        /\ Generated =>
             /\ argb = Gray /\ use_mono /\ scheme = "monochrome"
             /\ OnlyCached("monochrome", "SchemeMonochrome")
             /\ \A r \in DOMAIN material :
                  /\ SubSeq(material[r], 2, 3) = SubSeq(material[r], 4, 5)
                  /\ SubSeq(material[r], 4, 5) = SubSeq(material[r], 6, 7)
        /\ pc = "done" =>
             /\ Len(Docs) = 1
             /\ Docs[1].seedColor = Gray808080
             /\ Docs[1].scheme = "monochrome"
             /\ Docs[1].mode = args.mode

C1_Witness ==
    /\ pc = "done"
    /\ LowSaturation
    /\ args.scheme = "vibrant"
    /\ args.mode = "light"
    /\ Docs[1].scheme = "monochrome"

\* C2 as stated: a run on the literal seed #808080 reports scheme monochrome.
C2_LiteralGrayIsMonochrome ==
    (pc = "done" /\ args.src = "color" /\ argb = Gray) =>
        Docs[1].scheme = "monochrome"

\* C2 amended: on the literal seed #808080 no fallback is applied: nothing is
\* extracted, the monochrome flag stays clear, and the variant used for
\* generation and reported in the document is the requested one (monochrome
\* only when it was requested); the seed reported is #808080.
C2_LiteralGrayKeepsRequested ==
    (args.src = "color" /\ Generated /\ argb = Gray) =>
        /\ ~use_mono
        /\ ran \cap {"open", "quantize", "score"} = {}
        /\ scheme = args.scheme
        /\ OnlyCached(args.scheme, schemes[args.scheme])
        /\ pc = "done" =>
             /\ Len(Docs) = 1
             /\ Docs[1].scheme = args.scheme
             /\ Docs[1].seedColor = Gray808080

C2_Witness ==
    /\ pc = "done"
    /\ args.src = "color"
    /\ argb = Gray
    /\ args.scheme = "tonal-spot"
    /\ Docs[1].scheme = "tonal-spot"

\* C3: when the scorer ran (so the saturation gate did not trigger) and
\* returned candidates, a first candidate of chroma below 10 gives the gray
\* seed with the monochrome flag and scheme monochrome whatever was requested;
\* a first candidate of chroma 10 or more is the seed and the requested
\* variant is kept.
C3_ChromaOverride ==
    ("score" \in ran /\ scored # <<>>) =>
        LET first == scored[1]
            low   == ChromaTenths(first) < 100
        IN  /\ ~LowSaturation
            /\ result = IF low THEN <<Gray, TRUE>> ELSE <<first, FALSE>>
            /\ pc # "exit"
            /\ Generated =>
                 /\ argb = (IF low THEN Gray ELSE first)
                 /\ use_mono = low
                 /\ scheme = (IF low THEN "monochrome" ELSE args.scheme)
                 /\ OnlyCached(scheme, schemes[scheme])
            /\ pc = "done" =>
                 /\ Len(Docs) = 1
                 /\ Docs[1].scheme = (IF low THEN "monochrome" ELSE args.scheme)
                 /\ Docs[1].seedColor = argb_to_hex(IF low THEN Gray ELSE first)

C3_Witness ==
    /\ pc = "done"
    /\ scored = <<CandDull, CandVivid>>
    /\ args.scheme = "vibrant"
    /\ Docs[1].scheme = "monochrome"
    /\ Docs[1].seedColor = Gray808080

FatalMessages == {"ERROR: File not found", "Traceback: UnidentifiedImageError",
                  "ERROR: Could not extract color"}

\* C4: a run that meets a missing file, an undecodable image or an empty
\* scorer result has ended with a non-zero status, has run neither the
\* role-palette generation nor the shell derivation and has written no
\* document to the file or to standard output; a document exists only in a
\* run that completed with status 0.
C4_FatalNoDocument ==
    /\ (stderr # <<>> /\ stderr[Len(stderr)] \in FatalMessages) =>
         /\ pc = "exit"
         /\ exit_code > 0
         /\ "generate" \notin ran /\ "shell" \notin ran
         /\ material = EmptyDict /\ shell = EmptyDict
         /\ stdout = <<>> /\ out_file = <<>>
    /\ ("score" \in ran /\ scored = <<>>) => pc \in {"extracted", "exit"}
    /\ pc = "exit" => exit_code > 0 /\ Docs = <<>>
    /\ Docs # <<>> => pc = "done" /\ exit_code = 0

C4_Witness ==
    /\ pc = "exit"
    /\ "score" \in ran /\ scored = <<>>
    /\ stderr = <<"ERROR: Could not extract color">>
    /\ args.output

CoreRoles == {"primary", "onPrimary", "surface", "error"}

IsGenerate == call.fn = "generate_material_colors"

\* C5 as stated: the palette returned always holds the four core roles.
C5_CoreRolesAlwaysPresent ==
    IsGenerate => CoreRoles \subseteq DOMAIN call.colors

\* C5 amended: the palette returned holds each of the four core roles whose
\* own computation did not raise; a core role whose computation raises is
\* left out like any other role.
C5_CoreRolesPresentUnlessFailed ==
    IsGenerate =>
        \A r \in CoreRoles : (r \in DOMAIN call.colors) <=> (r \notin call.fail)

C5_Witness ==
    /\ IsGenerate
    /\ call.fail = {"background", "tertiary"}
    /\ CoreRoles \subseteq DOMAIN call.colors

\* C6: whatever roles fail, the call returns a palette holding exactly the
\* roles that did not fail, each with the value it has when no role fails.
C6_RoleFailureIsLocal ==
    IsGenerate =>
        LET clean == generate_material_colors(EmptyDict, call.argb, call.is_dark,
                                              call.name, {}).colors
        IN  /\ DOMAIN clean = Roles
            /\ DOMAIN call.colors = Roles \ call.fail
            /\ \A r \in DOMAIN call.colors : call.colors[r] = clean[r]

C6_Witness ==
    /\ IsGenerate
    /\ call.fail = {"primary", "surface"}
    /\ DOMAIN call.colors = Roles \ {"primary", "surface"}

ShellRoleNames ==
    {"backgroundColor", "backgroundColorDim", "backgroundColorBright",
     "backgroundColorHover", "foregroundColor", "dimmedColor", "accentColor",
     "accentColorDim", "onAccentColor", "secondaryColor", "tertiaryColor",
     "surfaceContainer", "surfaceContainerLow", "surfaceContainerHigh",
     "workspaceActive", "workspaceInactive", "workspaceUrgent", "errorColor",
     "onErrorColor", "successColor", "warningColor", "borderColor", "shadowColor"}

\* the first role of the chain present in mc, else the default
RECURSIVE FirstPresent(_, _, _)
FirstPresent(mc, chain, default) ==
    IF chain = <<>> THEN default
    ELSE IF Head(chain) \in DOMAIN mc THEN mc[Head(chain)]
    ELSE FirstPresent(mc, Tail(chain), default)

\* the blend of a toward b by k thousandths, in exact arithmetic
ExactBlend(a, b, k) ==
    LET ch(h, i) == ParseHex(SubSeq(h, i, i + 1))
        mix(i)   == (1000 * ch(a, i) + k * (ch(b, i) - ch(a, i))) \div 1000
    IN  FmtHex(mix(2), mix(4), mix(6))

\* C7: for a palette with any roles missing the shell derivation returns the
\* fixed set of shell roles; every role other than the four backgrounds is
\* the first present entry of its chain or its literal default, and the
\* backgrounds are the blends toward primaryContainer by 0.15, 0.15*0.7, 0.15
\* and 0.15*1.3 of the looked-up or defaulted surface roles.
C7_ShellFallbacks ==
    call.fn = "generate_shell_colors" =>
        LET mc == call.mc
            sh == call.shell
            pcn == FirstPresent(mc, <<"primaryContainer">>, Lit("0","0","4","c","9","9"))
            s0  == FirstPresent(mc, <<"surface">>, Lit("1","a","1","a","1","a"))
            s1  == FirstPresent(mc, <<"surfaceContainer">>, Lit("1","e","1","e","1","e"))
            s3  == FirstPresent(mc, <<"surfaceContainerHighest">>, Lit("3","3","3","3","3","3"))
        IN  /\ DOMAIN sh = ShellRoleNames
            /\ sh.backgroundColor = ExactBlend(s1, pcn, 150)
            /\ sh.backgroundColorDim = ExactBlend(s0, pcn, 105)
            /\ sh.backgroundColorBright = ExactBlend(s3, pcn, 150)
            /\ sh.backgroundColorHover = ExactBlend(s3, pcn, 195)
            /\ sh.foregroundColor = FirstPresent(mc, <<"onSurface">>, Lit("f","f","f","f","f","f"))
            /\ sh.dimmedColor = FirstPresent(mc, <<"outline">>, Lit("8","8","8","8","8","8"))
            /\ sh.accentColor = FirstPresent(mc, <<"primary">>, Lit("0","0","7","A","F","F"))
            /\ sh.accentColorDim = pcn
            /\ sh.onAccentColor = FirstPresent(mc, <<"onPrimary">>, Lit("f","f","f","f","f","f"))
            /\ sh.secondaryColor = FirstPresent(mc, <<"secondary">>, Lit("6","6","6","6","6","6"))
            /\ sh.tertiaryColor = FirstPresent(mc, <<"tertiary">>, Lit("8","8","8","8","8","8"))
            /\ sh.surfaceContainer =
                 FirstPresent(mc, <<"surfaceContainerHigh", "surfaceContainer">>,
                              Lit("1","e","1","e","1","e"))
            /\ sh.surfaceContainerLow =
                 FirstPresent(mc, <<"surfaceContainer", "surfaceContainerLow">>,
                              Lit("1","a","1","a","1","a"))
            /\ sh.surfaceContainerHigh =
                 FirstPresent(mc, <<"surfaceContainerHighest", "surfaceContainerHigh">>,
                              Lit("2","8","2","8","2","8"))
            /\ sh.workspaceActive = FirstPresent(mc, <<"primary">>, Lit("f","f","f","f","f","f"))
            /\ sh.workspaceInactive = FirstPresent(mc, <<"outlineVariant">>, Lit("5","5","5","5","5","5"))
            /\ sh.workspaceUrgent = FirstPresent(mc, <<"error">>, Lit("f","f","5","5","5","5"))
            /\ sh.errorColor = FirstPresent(mc, <<"error">>, Lit("f","f","5","5","5","5"))
            /\ sh.onErrorColor = FirstPresent(mc, <<"onError">>, Lit("f","f","f","f","f","f"))
            /\ sh.successColor = Lit("4","a","d","e","8","0")
            /\ sh.warningColor = Lit("f","f","a","7","2","6")
            /\ sh.borderColor = FirstPresent(mc, <<"outlineVariant">>, Lit("3","3","3","3","3","3"))
            /\ sh.shadowColor = FirstPresent(mc, <<"shadow">>, Lit("0","0","0","0","0","0"))

C7_Witness ==
    /\ call.fn = "generate_shell_colors"
    /\ DOMAIN call.mc = Roles \ {"surfaceContainerHigh", "primaryContainer"}
    /\ call.shell.surfaceContainer = call.mc["surfaceContainer"]
    /\ call.shell.accentColorDim = Lit("0","0","4","c","9","9")

Channels(h) == <<ParseHex(SubSeq(h, 2, 3)), ParseHex(SubSeq(h, 4, 5)),
                 ParseHex(SubSeq(h, 6, 7))>>

\* C8: blend_colors(A, B, 0) is the colour A and blend_colors(A, B, 1) is
\* the colour B, channel for channel.
C8_BlendEndpoints ==
    call.fn = "blend_colors" =>
        /\ call.amount = "zero" => Channels(call.ret) = Channels(call.hex1)
        /\ call.amount = "one"  => Channels(call.ret) = Channels(call.hex2)

C8_Witness ==
    /\ call.fn = "blend_colors"
    /\ call.amount = "one"
    /\ call.hex1 = FmtHex(254, 1, 1)
    /\ call.hex2 = FmtHex(1, 254, 254)
    /\ call.ret = call.hex2

\* the palette of a generation call c made with class cls
RoleLoopResult(cls, c) == DictOf(RoleLoop(cls, c.argb, c.is_dark, c.fail, <<>>, 1))

\* the class the variant table gives each name callers pass
TableClass(n) ==
    CASE n = "tonal-spot" -> "SchemeTonalSpot"
      [] n = "monochrome" -> "SchemeMonochrome"
      [] n = "vibrant"    -> "SchemeVibrant"
      [] n = "rainbow"    -> "SchemeRainbow"
      [] n = "sunset"     -> "SchemeTonalSpot"

\* C9: whatever calls came before, get_scheme_class returns the class the
\* variant table gives the name (tonal-spot's for a name not in the table),
\* and a generation returns the palette a fresh module would return for the
\* same seed, mode and variant.
C9_CacheIsTransparent ==
    /\ \A n \in DOMAIN scheme_cache : scheme_cache[n] = TableClass(n)
    /\ call.fn = "get_scheme_class" => call.cls = TableClass(call.name)
    /\ IsGenerate =>
         /\ call.cls = TableClass(call.name)
         /\ call.colors = RoleLoopResult(TableClass(call.name), call)

C9_Witness ==
    /\ IsGenerate
    /\ call.cached
    /\ call.name = "sunset"
    /\ Cardinality(DOMAIN scheme_cache) = 4

\* C10 as stated: an image wider or taller than the target has its larger
\* dimension scaled to the target and the other to
\* max(1, floor(other * target / larger)), both within 1..target; a smaller
\* image keeps its size; the pixel list has w' * h' entries.
C10_ResizeExact ==
    call.fn = "resize" =>
        LET w == call.w
            h == call.h
            s == call.size
        IN  /\ call.n = call.w2 * call.h2
            /\ IF w > s \/ h > s
               THEN /\ 1 <= call.w2 /\ call.w2 <= s
                    /\ 1 <= call.h2 /\ call.h2 <= s
                    /\ w >= h => call.w2 = s /\ call.h2 = Max2(1, (h * s) \div w)
                    /\ h >= w => call.h2 = s /\ call.w2 = Max2(1, (w * s) \div h)
               ELSE call.w2 = w /\ call.h2 = h
====
